---- MODULE Spec2Model ----
(***************************************************************************)
(* Model of the GeneXis account/session store (AuthProvider in             *)
(* src/src/App.tsx) and of the generation client                           *)
(* (src/unnamed/part_000, imported as ./services/geminiService).           *)
(*                                                                         *)
(* A JavaScript object is a function from its own property names to their  *)
(* values; {...a, ...b} is Merge(a, b).  A storage item is what getItem     *)
(* returns: NoItem for null, otherwise a text.                             *)
(***************************************************************************)
EXTENDS Integers, Sequences, FiniteSets, TLC

\* ---------------------------------------------------------------- bounds
MaxLen == 3
\* Bound: the number of generation requests the views issue in one run.
MaxRequests == 3

\* ---------------------------------------------------------------- inputs
Emails == {"a@x.com", "b@x.com"}
Passwords == {"secret1", "secret2"}
Names == {"Alex", "Sam"}

\* The onboarding selections ProfileSetup collects and passes to
\* updateProfile, and a one-field update as in the documented example.
UpdateData ==
  { [educationLevel |-> "Graduate"],
    [educationLevel |-> "Undergraduate",
     interests |-> <<"Genetics">>,
     knowledgeLevel |-> "Beginner"] }

\* Partial<UserProfile> also permits the identity fields.
AnyFieldsData == { [educationLevel |-> "Graduate"] } \cup { [email |-> e] : e \in Emails }

\* ---------------------------------------------------------------- values
Null == [null |-> TRUE]
EmptyObject == [f \in {} |-> 0]

DuplicateAccount == "An account with this email already exists."
AccountNotFound == "No account found with that email."
InvalidCredentials == "Incorrect password."
NoError == ""

\* {...a, ...b}
Merge(a, b) ==
  [f \in (DOMAIN a) \cup (DOMAIN b) |-> IF f \in DOMAIN b THEN b[f] ELSE a[f]]

\* a delete that leaves the property in place.
Without_Keeps(o, field) == o

\* delete o[field]
Without(o, field) == [f \in (DOMAIN o) \ {field} |-> o[f]]

\* ---------------------------------------------------------------- storage
NoItem == [kind |-> "null"]
Garbage == [kind |-> "garbage"]

\* JSON.stringify of a value the provider writes (objects of strings,
\* numbers and arrays of strings): the text that denotes that value.
JSONstringify(v) == [kind |-> "json", value |-> v]

\* JSON.parse(item || fallback) of a storage item: the denoted value, or a
\* thrown SyntaxError for a text that is not JSON.
JSONparseItem(item, fallback) ==
  CASE item.kind = "null" -> [threw |-> FALSE, value |-> fallback]
    [] item.kind = "json" -> [threw |-> FALSE, value |-> item.value]
    [] OTHER -> [threw |-> TRUE, value |-> Null]

\* JSON.parse(localStorage.getItem("genexis_users") || "{}")
ReadUsers(ls) == JSONparseItem(ls.genexis_users, EmptyObject).value

\* useState initializer of authUser:
\* try { JSON.parse(localStorage.getItem("genexis_session") || "null") }
\* catch { null }
InitialAuthUser(ls) ==
  LET r == JSONparseItem(ls.genexis_session, Null)
  IN IF r.threw THEN Null ELSE r.value

\* ---------------------------------------------------------------- state
VARIABLES
  authUser,        \* React state of AuthProvider: a UserProfile or Null
  localStorage,    \* durable store: genexis_users, genexis_session
  sessionStorage,  \* process-lifetime store: genexis_session
  now,             \* the clock Date.now() reads, in ticks
  result,          \* the last call made on the context and what it returned
  established,     \* history: the call that established the active session
  written,         \* history: per email, the fields updateProfile was given
  screen,          \* the component AuthWrapper renders for authUser
  generation,      \* the observed invocation of the generation client
  view,            \* AppLayout: the view selected in the main application
  profileSetup,    \* ProfileSetup: step and data
  requests,        \* the calls the views made on the generation client
  quizPage,        \* QuizPage: quiz, loading, current, score, finished, selected,
                   \* and the callbacks its setTimeout calls have pending
  learningModule,  \* LearningModule: activeTab, content, loading
  chatAssistant    \* ChatAssistant: msgs, input, typing

authVars == <<authUser, localStorage, sessionStorage, now, result, established, written, screen>>
genVars == <<generation>>
viewVars == <<view, profileSetup, requests, quizPage, learningModule, chatAssistant>>
vars == <<authVars, genVars, viewVars>>

Call(op, email, password, remember, data, ok, error) ==
  [op |-> op, email |-> email, password |-> password, remember |-> remember,
   data |-> data, ok |-> ok, error |-> error]

\* ---------------------------------------------------------------- routing
\* JavaScript truthiness of an optional string property: present and not "".
Truthy(o, field) == field \in DOMAIN o /\ o[field] # ""

\* routing that only asks whether the property is present.
Screen_PresenceOnly(user) ==
  IF user = Null THEN "AuthScreen"
  ELSE IF "educationLevel" \notin DOMAIN user THEN "ProfileSetup"
  ELSE "AppLayout"

\* AuthWrapper: authUser ? <AppLayout /> : <AuthScreen />, and in AppLayout:
\* if (!authUser?.educationLevel) return <ProfileSetup ... />
Screen(user) ==
  IF user = Null THEN "AuthScreen"
  ELSE IF ~Truthy(user, "educationLevel") THEN "ProfileSetup"
  ELSE "AppLayout"

\* ---------------------------------------------------------------- signup
\* users[email] is truthy
AccountExists(users, email) == email \in DOMAIN users

\* a new profile whose level starts at 0.
NewUser_LevelZero(email, name, createdAt) ==
  [email |-> email, name |-> name, createdAt |-> createdAt, xp |-> 0, level |-> 0, streak |-> 1]

\* const user: UserProfile = { email, name, createdAt: Date.now(), xp: 0, level: 1, streak: 1 }
NewUser(email, name, createdAt) ==
  [email |-> email, name |-> name, createdAt |-> createdAt, xp |-> 0, level |-> 1, streak |-> 1]

\* an assignment that starts from an empty mapping.
SetUser_Fresh(users, email, value) == [e \in {email} |-> value]

\* users[email] = value
SetUser(users, email, value) ==
  [e \in (DOMAIN users) \cup {email} |-> IF e = email THEN value ELSE users[e]]

\* signup without its duplicate check.
SignupError_NoCheck(users, email) == NoError

\* The early return of signup: the error message, or NoError.
SignupError(users, email) ==
  IF AccountExists(users, email) THEN DuplicateAccount ELSE NoError

Signup(email, password, name) ==
  LET users == ReadUsers(localStorage)
      user == NewUser(email, name, now)
  IN IF SignupError(users, email) # NoError
     THEN /\ result' = Call("signup", email, password, FALSE, EmptyObject, FALSE, SignupError(users, email))
          /\ UNCHANGED <<authUser, localStorage, sessionStorage, now, established, written, screen>>
          /\ UNCHANGED <<genVars, viewVars>>
     ELSE /\ localStorage' =
               [localStorage EXCEPT
                  !.genexis_users =
                     JSONstringify(SetUser(users, email, Merge(user, [password |-> password]))),
                  !.genexis_session = JSONstringify(user)]
          /\ authUser' = user
          /\ screen' = Screen(authUser')
          /\ result' = Call("signup", email, password, FALSE, EmptyObject, TRUE, NoError)
          /\ established' = "signup"
          /\ now' = now + 1
          /\ UNCHANGED <<sessionStorage, written, genVars, viewVars>>

\* ---------------------------------------------------------------- login
\* login without its password comparison.
LoginError_NoPasswordCheck(users, email, password) ==
  IF ~AccountExists(users, email) THEN AccountNotFound ELSE NoError

\* The two early returns of login: the error message, or NoError.
LoginError(users, email, password) ==
  IF ~AccountExists(users, email) THEN AccountNotFound
  ELSE IF users[email].password # password THEN InvalidCredentials
  ELSE NoError

\* login that also drops the creation timestamp.
PublicFields_DropsCreatedAt(record) == Without(Without(record, "password"), "createdAt")

\* const user = { ...record }; delete user.password
PublicFields(record) == Without(record, "password")

\* if (remember) localStorage.setItem(...) else sessionStorage.setItem(...)
LoginLocalStorage(ls, remember, user) ==
  IF remember THEN [ls EXCEPT !.genexis_session = JSONstringify(user)] ELSE ls

LoginSessionStorage(ss, remember, user) ==
  IF remember THEN ss ELSE [ss EXCEPT !.genexis_session = JSONstringify(user)]

\* a login whose failure ends the active session.
Login_FailureEndsSession(email, password, remember) ==
  LET users == ReadUsers(localStorage)
      error == LoginError(users, email, password)
  IN IF error # NoError
     THEN /\ result' = Call("login", email, password, remember, EmptyObject, FALSE, error)
          /\ authUser' = Null
          /\ screen' = Screen(authUser')
          /\ UNCHANGED <<localStorage, sessionStorage, now, established, written>>
          /\ UNCHANGED <<genVars, viewVars>>
     ELSE LET user == PublicFields(users[email])
          IN /\ localStorage' = LoginLocalStorage(localStorage, remember, user)
             /\ sessionStorage' = LoginSessionStorage(sessionStorage, remember, user)
             /\ authUser' = user
             /\ screen' = Screen(authUser')
             /\ result' = Call("login", email, password, remember, EmptyObject, TRUE, NoError)
             /\ established' = IF remember THEN "remember" ELSE "session"
             /\ UNCHANGED <<now, written, genVars, viewVars>>

Login(email, password, remember) ==
  LET users == ReadUsers(localStorage)
      error == LoginError(users, email, password)
  IN IF error # NoError
     THEN /\ result' = Call("login", email, password, remember, EmptyObject, FALSE, error)
          /\ UNCHANGED <<authUser, localStorage, sessionStorage, now, established, written, screen>>
          /\ UNCHANGED <<genVars, viewVars>>
     ELSE LET user == PublicFields(users[email])
          IN /\ localStorage' = LoginLocalStorage(localStorage, remember, user)
             /\ sessionStorage' = LoginSessionStorage(sessionStorage, remember, user)
             /\ authUser' = user
             /\ screen' = Screen(authUser')
             /\ result' = Call("login", email, password, remember, EmptyObject, TRUE, NoError)
             /\ established' = IF remember THEN "remember" ELSE "session"
             /\ UNCHANGED <<now, written, genVars, viewVars>>

\* ---------------------------------------------------------------- updateProfile
\* the spread written the other way round: { ...data, ...users[authUser.email] }
PatchUsers_RecordWins(users, email, data) ==
  IF AccountExists(users, email)
  THEN SetUser(users, email, Merge(data, users[email]))
  ELSE users

\* users[authUser.email] = { ...users[authUser.email], ...data } when present
PatchUsers(users, email, data) ==
  IF AccountExists(users, email)
  THEN SetUser(users, email, Merge(users[email], data))
  ELSE users

\* updateProfile without its early return: the session entry is written
\* even when there is no session.
UpdateLocalStorage_NoGuard(ls, user, data) ==
  [ls EXCEPT !.genexis_session = JSONstringify(Merge(user, data))]

\* What updateProfile leaves in localStorage.
UpdateLocalStorage(ls, user, data) ==
  IF user = Null THEN ls
  ELSE LET updated == Merge(user, data)
           users == ReadUsers(ls)
       IN [ls EXCEPT
             !.genexis_session = JSONstringify(updated),
             !.genexis_users =
                IF AccountExists(users, user.email)
                THEN JSONstringify(PatchUsers(users, user.email, data))
                ELSE @]

\* What updateProfile leaves in the React state.
UpdateAuthUser(user, data) == IF user = Null THEN user ELSE Merge(user, data)

\* The body of updateProfile, and the render that follows it.
UpdateProfileCall(data) ==
  /\ authUser' = UpdateAuthUser(authUser, data)
  /\ screen' = Screen(authUser')
  /\ localStorage' = UpdateLocalStorage(localStorage, authUser, data)
  /\ result' = Call("updateProfile", "", "", FALSE, data, TRUE, NoError)
  /\ written' = IF authUser = Null THEN written
                ELSE [written EXCEPT ![authUser.email] = Merge(@, data)]
  /\ UNCHANGED <<sessionStorage, now, established>>

UpdateProfile(data) ==
  /\ UpdateProfileCall(data)
  /\ UNCHANGED <<genVars, viewVars>>

\* ---------------------------------------------------------------- logout
\* logout that forgets sessionStorage.removeItem.
Logout_KeepsSessionStorage ==
  /\ localStorage' = [localStorage EXCEPT !.genexis_session = NoItem]
  /\ authUser' = Null
  /\ screen' = Screen(authUser')
  /\ result' = Call("logout", "", "", FALSE, EmptyObject, TRUE, NoError)
  /\ established' = "none"
  /\ UNCHANGED <<sessionStorage, now, written, genVars, viewVars>>

Logout ==
  /\ localStorage' = [localStorage EXCEPT !.genexis_session = NoItem]
  /\ sessionStorage' = [sessionStorage EXCEPT !.genexis_session = NoItem]
  /\ authUser' = Null
  /\ screen' = Screen(authUser')
  /\ result' = Call("logout", "", "", FALSE, EmptyObject, TRUE, NoError)
  /\ established' = "none"
  /\ UNCHANGED <<now, written, genVars, viewVars>>

\* ---------------------------------------------------------------- restart
\* AuthProvider is mounted again: a reload of the page keeps sessionStorage,
\* a new browser session starts with it empty.  localStorage survives both.
RestartCall(keepTab) ==
  /\ authUser' = InitialAuthUser(localStorage)
  /\ screen' = Screen(authUser')
  /\ sessionStorage' = IF keepTab THEN sessionStorage ELSE [genexis_session |-> NoItem]
  /\ result' = Call("restart", "", "", keepTab, EmptyObject, TRUE, NoError)
  /\ established' = IF InitialAuthUser(localStorage) = Null THEN "none" ELSE established
  /\ UNCHANGED <<localStorage, now, written>>

Restart(keepTab) ==
  /\ RestartCall(keepTab)
  /\ UNCHANGED <<genVars, viewVars>>

\* ---------------------------------------------------------------- component state
\* useState initial values of the components.
NoSelection == -1
NoContent == [kind |-> "null", title |-> "", sections |-> <<>>]
EmptyQuiz == [kind |-> "array", items |-> <<>>]
Greeting == [role |-> "ai", text |-> "Hello! I'm your GeneXis tutor. Ask me anything about genetics or biology."]

InitialProfileSetup ==
  [step |-> 1, data |-> [educationLevel |-> "", interests |-> <<>>, knowledgeLevel |-> ""]]

InitialQuizPage ==
  [quiz |-> EmptyQuiz, loading |-> TRUE, current |-> 0, score |-> 0,
   finished |-> FALSE, selected |-> NoSelection, timers |-> <<>>]

InitialLearningModule == [activeTab |-> 0, content |-> NoContent, loading |-> TRUE]

InitialChatAssistant == [msgs |-> <<Greeting>>, input |-> "", typing |-> FALSE]

\* ---------------------------------------------------------------- onboarding
\* The choices the ProfileSetup buttons offer (a selection of them).
EducationChoices == {"Undergraduate", "Graduate"}
InterestChoices == {"Genetics", "CRISPR"}
KnowledgeChoices == {"Beginner"}

\* data.interests.filter(t => t !== topic)
RECURSIVE Filter(_, _)
Filter(seq, x) ==
  IF seq = <<>> THEN <<>>
  ELSE IF Head(seq) = x THEN Filter(Tail(seq), x)
  ELSE <<Head(seq)>> \o Filter(Tail(seq), x)

Includes(seq, x) == \E i \in 1..Len(seq) : seq[i] = x

\* onClick of an education level button (step 1)
SelectEducation(lvl) ==
  /\ screen = "ProfileSetup"
  /\ profileSetup.step = 1
  /\ profileSetup' = [profileSetup EXCEPT !.data.educationLevel = lvl]
  /\ UNCHANGED <<authVars, genVars, view, requests, quizPage, learningModule, chatAssistant>>

\* onClick of an interest button (step 2): toggles the topic
ToggleInterest(topic) ==
  /\ screen = "ProfileSetup"
  /\ profileSetup.step = 2
  /\ profileSetup' =
       [profileSetup EXCEPT !.data.interests =
          IF Includes(@, topic) THEN Filter(@, topic) ELSE Append(@, topic)]
  /\ UNCHANGED <<authVars, genVars, view, requests, quizPage, learningModule, chatAssistant>>

\* onClick of a knowledge level button (step 3)
SelectKnowledge(lvl) ==
  /\ screen = "ProfileSetup"
  /\ profileSetup.step = 3
  /\ profileSetup' = [profileSetup EXCEPT !.data.knowledgeLevel = lvl]
  /\ UNCHANGED <<authVars, genVars, view, requests, quizPage, learningModule, chatAssistant>>

NextDisabled_Never(ps) == FALSE

\* disabled={step === 1 ? !data.educationLevel : step === 2 ?
\*           data.interests.length === 0 : !data.knowledgeLevel}
NextDisabled(ps) ==
  IF ps.step = 1 THEN ps.data.educationLevel = ""
  ELSE IF ps.step = 2 THEN Len(ps.data.interests) = 0
  ELSE ps.data.knowledgeLevel = ""

\* a next that completes from whichever step it is on.
ProfileNext_CompletesAtOnce ==
  /\ screen = "ProfileSetup"
  /\ ~NextDisabled(profileSetup)
  /\ UpdateProfileCall(profileSetup.data)
  /\ view' = "dashboard"
  /\ profileSetup' = IF screen' = "ProfileSetup" THEN profileSetup
                     ELSE InitialProfileSetup
  /\ UNCHANGED <<genVars, requests, quizPage, learningModule, chatAssistant>>

\* ProfileSetup.next, from the CONTINUE / COMPLETE button: advances, or on
\* step 3 calls updateProfile(data) and onComplete (setView("dashboard")).
\* The render that follows replaces ProfileSetup once the gate has flipped.
ProfileNext ==
  /\ screen = "ProfileSetup"
  /\ ~NextDisabled(profileSetup)
  /\ IF profileSetup.step < 3
     THEN /\ profileSetup' = [profileSetup EXCEPT !.step = @ + 1]
          /\ UNCHANGED <<authVars, view>>
     ELSE /\ UpdateProfileCall(profileSetup.data)
          /\ view' = "dashboard"
          /\ profileSetup' = IF screen' = "ProfileSetup" THEN profileSetup
                             ELSE InitialProfileSetup
  /\ UNCHANGED <<genVars, requests, quizPage, learningModule, chatAssistant>>

\* ---------------------------------------------------------------- views
\* What the generation client hands back to the views once the remote call
\* and the parse succeeded.
Question == [options |-> <<"A", "B">>, correctAnswer |-> 0]
SecondQuestion == [options |-> <<"A", "B">>, correctAnswer |-> 1]
QuizValues ==
  { EmptyQuiz,
    [kind |-> "array", items |-> <<Question>>],
    [kind |-> "array", items |-> <<Question, SecondQuestion>>] }
LessonValues ==
  { [kind |-> "object", title |-> "", sections |-> <<>>],
    [kind |-> "object", title |-> "Genetics", sections |-> <<"Overview", "Inheritance">>] }
Replies == {"", "A gene is a unit of heredity."}

\* What the user types into the chat input.
InputTexts == {"What is a gene?", "  "}

\* a trim that removes nothing.
Trim_Nothing(txt) == txt

\* input.trim()
Trim(txt) == IF txt = "  " THEN "" ELSE txt

FallbackReply == "I'm sorry, I couldn't process that."
ErrorReply == "Error connecting to neural network."

\* A call on the generation client: live while the component that made it is
\* still mounted; reply is the text getChatResponse resolved to.
Request(fn, arg) ==
  [fn |-> fn, arg |-> arg, status |-> "pending", live |-> TRUE, reply |-> ""]

\* The requests the useEffect of a view issues when the view mounts.
IssuedOnMount(v) ==
  IF v = "learn" THEN <<Request("generateLearningContent", "Genetics")>>
  ELSE IF v = "quiz" THEN <<Request("generateQuiz", "Genetics")>>
  ELSE <<>>

\* an unmount after which the component still takes state updates.
Unmount_StillListening(reqs) == reqs

\* The component of the current view unmounts.
Unmount(reqs) == [i \in DOMAIN reqs |-> [reqs[i] EXCEPT !.live = FALSE]]

\* setView(v): the component of the old view unmounts, the component of the
\* new view mounts with its initial state and runs its effect.
Navigate(v) ==
  /\ screen = "AppLayout"
  /\ v # view
  /\ Len(requests) + Len(IssuedOnMount(v)) <= MaxRequests
  /\ view' = v
  /\ requests' = Unmount(requests) \o IssuedOnMount(v)
  /\ quizPage' = InitialQuizPage
  /\ learningModule' = InitialLearningModule
  /\ chatAssistant' = InitialChatAssistant
  /\ UNCHANGED <<authVars, genVars, profileSetup>>

\* The views of NAV_ITEMS that the model follows.
SidebarViews == {"dashboard", "learn", "chat"}

\* onClick of a sidebar item
SetView(v) ==
  /\ v \in SidebarViews
  /\ Navigate(v)

\* The section of the rendered lesson view, if there is one.
HasSection(lm) == lm.activeTab < Len(lm.content.sections)

\* onClick of Take Quiz, rendered when content?.sections?.[activeTab] exists
TakeQuiz ==
  /\ view = "learn"
  /\ ~learningModule.loading
  /\ HasSection(learningModule)
  /\ Navigate("quiz")

\* onChange of the chat input
ChatType(txt) ==
  /\ screen = "AppLayout"
  /\ view = "chat"
  /\ chatAssistant' = [chatAssistant EXCEPT !.input = txt]
  /\ UNCHANGED <<authVars, genVars, view, profileSetup, requests, quizPage, learningModule>>

\* ChatAssistant.send up to its await
ChatSend ==
  /\ screen = "AppLayout"
  /\ view = "chat"
  /\ IF Trim(chatAssistant.input) = ""
     THEN UNCHANGED <<requests, chatAssistant>>
     ELSE /\ Len(requests) < MaxRequests
          /\ chatAssistant' =
               [chatAssistant EXCEPT
                  !.input = "",
                  !.msgs = Append(@, [role |-> "user", text |-> chatAssistant.input]),
                  !.typing = TRUE]
          /\ requests' = Append(requests, Request("getChatResponse", chatAssistant.input))
  /\ UNCHANGED <<authVars, genVars, view, profileSetup, quizPage, learningModule>>

\* a callback that waits for a question before it ends the loading state.
QuizLoaded_WaitsForQuestion(qp, data) ==
  [qp EXCEPT !.quiz = data, !.loading = (data.items = <<>>)]

\* data => { setQuiz(data); setLoading(false); }
QuizLoaded(qp, data) == [qp EXCEPT !.quiz = data, !.loading = FALSE]

\* data => { setContent(data); setLoading(false); }
LessonLoaded(lm, data) == [lm EXCEPT !.content = data, !.loading = FALSE]

\* quiz[current] of the rendered quiz view: the question, if there is one.
HasQuestion(qp) == qp.current < Len(qp.quiz.items)
CurrentQuestion(qp) == qp.quiz.items[qp.current + 1]

\* a comparison that counts every answer as correct.
Points_Always(question, idx) == 1

\* if (idx === quiz[current].correctAnswer) setScore(s => s + 1)
Points(question, idx) == IF idx = question.correctAnswer THEN 1 ELSE 0

\* onClick of option idx (handleAnswer): the option buttons are rendered
\* once loading is over and the view is not finished, for the options of
\* quiz[current], and are disabled while selected is not null.
HandleAnswer(idx) ==
  /\ screen = "AppLayout"
  /\ view = "quiz"
  /\ ~quizPage.loading
  /\ ~quizPage.finished
  /\ HasQuestion(quizPage)
  /\ idx < Len(CurrentQuestion(quizPage).options)
  /\ quizPage.selected = NoSelection
  /\ quizPage' =
       [quizPage EXCEPT
          !.selected = idx,
          !.score = @ + Points(CurrentQuestion(quizPage), idx),
          !.timers = Append(@, [current |-> quizPage.current,
                                length |-> Len(quizPage.quiz.items)])]
  /\ UNCHANGED <<authVars, genVars, view, profileSetup, requests, learningModule, chatAssistant>>

\* The callback handleAnswer passed to setTimeout runs, with the current and
\* the quiz of the render that created it.
TimerFires ==
  /\ quizPage.timers # <<>>
  /\ quizPage' =
       IF Head(quizPage.timers).current < Head(quizPage.timers).length - 1
       THEN [quizPage EXCEPT
               !.current = Head(quizPage.timers).current + 1,
               !.selected = NoSelection,
               !.timers = Tail(@)]
       ELSE [quizPage EXCEPT !.finished = TRUE, !.timers = Tail(@)]
  /\ UNCHANGED <<authVars, genVars, view, profileSetup, requests, learningModule, chatAssistant>>

\* onClick of RETRY ASSESSMENT on the finished view: window.location.reload()
RetryAssessment ==
  /\ screen = "AppLayout"
  /\ view = "quiz"
  /\ ~quizPage.loading
  /\ quizPage.finished
  /\ RestartCall(TRUE)
  /\ view' = "dashboard"
  /\ profileSetup' = InitialProfileSetup
  /\ requests' = Unmount(requests)
  /\ quizPage' = InitialQuizPage
  /\ learningModule' = InitialLearningModule
  /\ chatAssistant' = InitialChatAssistant
  /\ UNCHANGED genVars

\* setActiveTab(i), from section button i of the lesson sidebar or from
\* Previous (i = Math.max(0, activeTab - 1)), which is rendered with the
\* section of activeTab
SetActiveTab(i) ==
  /\ screen = "AppLayout"
  /\ view = "learn"
  /\ ~learningModule.loading
  /\ \/ i < Len(learningModule.content.sections)
     \/ /\ HasSection(learningModule)
        /\ i = IF learningModule.activeTab - 1 > 0 THEN learningModule.activeTab - 1 ELSE 0
  /\ learningModule' = [learningModule EXCEPT !.activeTab = i]
  /\ UNCHANGED <<authVars, genVars, view, profileSetup, requests, quizPage, chatAssistant>>

\* The promise of request i, a call of fn, fulfils and the continuation of its caller runs:
\* the .then callback of QuizPage or LearningModule, the rest of the try
\* block and the finally of send. State updates of an unmounted component
\* are dropped.
RequestFulfils(i, fn, value) ==
  /\ i \in DOMAIN requests
  /\ requests[i].fn = fn
  /\ requests[i].status = "pending"
  /\ requests' = [requests EXCEPT
                     ![i].status = "fulfilled",
                     ![i].reply = IF fn = "getChatResponse" THEN value ELSE ""]
  /\ quizPage' = IF requests[i].live /\ requests[i].fn = "generateQuiz"
                 THEN QuizLoaded(quizPage, value)
                 ELSE quizPage
  /\ learningModule' = IF requests[i].live /\ requests[i].fn = "generateLearningContent"
                       THEN LessonLoaded(learningModule, value)
                       ELSE learningModule
  /\ chatAssistant' =
       IF requests[i].live /\ requests[i].fn = "getChatResponse"
       THEN [chatAssistant EXCEPT
               !.msgs = Append(@, [role |-> "ai",
                                   text |-> IF value = "" THEN FallbackReply ELSE value]),
               !.typing = FALSE]
       ELSE chatAssistant
  /\ UNCHANGED <<authVars, genVars, view, profileSetup>>

\* The promise of request i rejects (the remote call failed or JSON.parse
\* threw): QuizPage and LearningModule attach no rejection handler, send
\* runs its catch and its finally.
RequestRejects(i) ==
  /\ i \in DOMAIN requests
  /\ requests[i].status = "pending"
  /\ requests' = [requests EXCEPT ![i].status = "rejected"]
  /\ chatAssistant' =
       IF requests[i].live /\ requests[i].fn = "getChatResponse"
       THEN [chatAssistant EXCEPT
               !.msgs = Append(@, [role |-> "ai", text |-> ErrorReply]),
               !.typing = FALSE]
       ELSE chatAssistant
  /\ UNCHANGED <<authVars, genVars, view, profileSetup, quizPage, learningModule>>

\* ---------------------------------------------------------------- generation client
\* A response text is a sequence of JSON tokens: brackets, braces, commas,
\* "k" for a member key with its colon, "q" for a scalar.
Tokens == {"[", "]", "{", "}", ",", "k", "q"}

RECURSIVE SeqsOfLen(_)
SeqsOfLen(n) ==
  IF n = 0 THEN {<<>>}
  ELSE {Append(s, t) : s \in SeqsOfLen(n - 1), t \in Tokens}

Texts == UNION {SeqsOfLen(n) : n \in 0..MaxLen}

\* response.text is a string, or undefined when the reply has no text part.
Responses ==
  {[hasText |-> FALSE, text |-> <<>>]} \cup {[hasText |-> TRUE, text |-> t] : t \in Texts}

JSONvalue(type, items) == [type |-> type, items |-> items]
EmptyArray == JSONvalue("array", <<>>)
EmptyDocument == JSONvalue("object", <<>>)
NoValue == JSONvalue("undefined", <<>>)
ParseFail == [ok |-> FALSE, value |-> NoValue, next |-> 0]

Closer(type) == IF type = "array" THEN "]" ELSE "}"

\* Recursive descent over the JSON grammar:
\*   value  ::= q | [ ] | [ value (, value)* ] | { } | { k value (, k value)* }
RECURSIVE ParseValue(_, _), ParseItems(_, _, _, _)
ParseValue(s, i) ==
  IF i > Len(s) THEN ParseFail
  ELSE IF s[i] = "q" THEN [ok |-> TRUE, value |-> JSONvalue("scalar", <<>>), next |-> i + 1]
  ELSE IF s[i] \in {"[", "{"} THEN
    LET type == IF s[i] = "[" THEN "array" ELSE "object"
    IN IF i + 1 <= Len(s) /\ s[i + 1] = Closer(type)
       THEN [ok |-> TRUE, value |-> JSONvalue(type, <<>>), next |-> i + 2]
       ELSE ParseItems(s, i + 1, type, <<>>)
  ELSE ParseFail

ParseItems(s, i, type, acc) ==
  LET start == IF type = "object" THEN i + 1 ELSE i
      keyOk == type = "array" \/ (i <= Len(s) /\ s[i] = "k")
      item == IF keyOk THEN ParseValue(s, start) ELSE ParseFail
  IN IF ~item.ok \/ item.next > Len(s) THEN ParseFail
     ELSE IF s[item.next] = "," THEN ParseItems(s, item.next + 1, type, Append(acc, item.value))
     ELSE IF s[item.next] = Closer(type)
          THEN [ok |-> TRUE, value |-> JSONvalue(type, Append(acc, item.value)),
                next |-> item.next + 1]
     ELSE ParseFail

\* JSON.parse(text): the value, or a thrown SyntaxError.
JSONparse(text) ==
  LET r == ParseValue(text, 1)
  IN IF r.ok /\ r.next = Len(text) + 1
     THEN [threw |-> FALSE, value |-> r.value]
     ELSE [threw |-> TRUE, value |-> NoValue]

\* response.text || fallback
TextOr(response, fallback) ==
  IF response.hasText /\ response.text # <<>> THEN response.text ELSE fallback

Settled(status, value, reason) == [status |-> status, value |-> value, reason |-> reason]

\* return JSON.parse(response.text || "[]") inside an async function:
\* a throw rejects the returned promise.
QuizOutcome(response) ==
  LET r == JSONparse(TextOr(response, <<"[", "]">>))
  IN IF r.threw THEN Settled("rejected", NoValue, "SyntaxError")
     ELSE Settled("fulfilled", r.value, "")

\* return JSON.parse(response.text || "{}")
LessonOutcome(response) ==
  LET r == JSONparse(TextOr(response, <<"{", "}">>))
  IN IF r.threw THEN Settled("rejected", NoValue, "SyntaxError")
     ELSE Settled("fulfilled", r.value, "")

Topics == {"Genetics", "CRISPR"}
NoResponse == [hasText |-> FALSE, text |-> <<>>]

Invocation(fn, topic, responded, response, outcome) ==
  [fn |-> fn, topic |-> topic, responded |-> responded, response |-> response,
   outcome |-> outcome]

\* generateQuiz(topic) is called and suspends at its await.
GenerateQuiz(topic) ==
  /\ generation.outcome.status # "pending"
  /\ generation' = Invocation("generateQuiz", topic, FALSE, NoResponse,
                              Settled("pending", NoValue, ""))
  /\ UNCHANGED <<authVars, viewVars>>

\* generateLearningContent(topic) is called and suspends at its await.
GenerateLearningContent(topic) ==
  /\ generation.outcome.status # "pending"
  /\ generation' = Invocation("generateLearningContent", topic, FALSE, NoResponse,
                              Settled("pending", NoValue, ""))
  /\ UNCHANGED <<authVars, viewVars>>

\* ai.models.generateContent resolves: the function resumes and returns.
RemoteResponds(response) ==
  /\ generation.outcome.status = "pending"
  /\ generation' =
       [generation EXCEPT
          !.responded = TRUE,
          !.response = response,
          !.outcome = IF generation.fn = "generateQuiz"
                      THEN QuizOutcome(response) ELSE LessonOutcome(response)]
  /\ UNCHANGED <<authVars, viewVars>>

\* ai.models.generateContent rejects (network, auth, quota): the await throws.
RemoteFails ==
  /\ generation.outcome.status = "pending"
  /\ generation' = [generation EXCEPT !.outcome = Settled("rejected", NoValue, "RemoteCallFailure")]
  /\ UNCHANGED <<authVars, viewVars>>

\* ---------------------------------------------------------------- spec
NoInvocation == Invocation("none", "", FALSE, NoResponse, Settled("idle", NoValue, ""))

\* First mount: nothing stored, or a genexis_session entry that is not JSON.
Init ==
  /\ \E s \in {NoItem, Garbage} :
        localStorage = [genexis_users |-> NoItem, genexis_session |-> s]
  /\ sessionStorage = [genexis_session |-> NoItem]
  /\ authUser = InitialAuthUser(localStorage)
  /\ screen = Screen(authUser)
  /\ result = Call("init", "", "", FALSE, EmptyObject, TRUE, NoError)
  /\ now = 1
  /\ established = "none"
  /\ written = [e \in Emails |-> EmptyObject]
  /\ generation = NoInvocation
  /\ view = "dashboard"
  /\ profileSetup = InitialProfileSetup
  /\ requests = <<>>
  /\ quizPage = InitialQuizPage
  /\ learningModule = InitialLearningModule
  /\ chatAssistant = InitialChatAssistant

Next ==
  \/ \E e \in Emails, p \in Passwords, n \in Names : Signup(e, p, n)
  \/ \E e \in Emails, p \in Passwords, r \in BOOLEAN : Login(e, p, r)
  \/ \E d \in UpdateData : UpdateProfile(d)
  \/ Logout
  \/ \E k \in BOOLEAN : Restart(k)

Spec == Init /\ [][Next]_vars

\* The generation client on its own: the account store stays as first mounted.
NextGen ==
  \/ \E t \in Topics : GenerateQuiz(t)
  \/ \E t \in Topics : GenerateLearningContent(t)
  \/ \E r \in Responses : RemoteResponds(r)
  \/ RemoteFails

SpecGen == Init /\ [][NextGen]_vars

\* The same operations, updateProfile taking any Partial<UserProfile>.
NextAnyFields ==
  \/ \E e \in Emails : Signup(e, "secret1", "Alex")
  \/ \E e \in Emails, r \in BOOLEAN : Login(e, "secret1", r)
  \/ \E d \in AnyFieldsData : UpdateProfile(d)
  \/ Logout
  \/ \E k \in BOOLEAN : Restart(k)

SpecAnyFields == Init /\ [][NextAnyFields]_vars

\* The account store as the screens drive it: AuthScreen submits signup and
\* login, ProfileSetup collects the onboarding data, the sidebar of the main
\* application logs out.
NextOnboarding ==
  \/ \E e \in Emails, p \in Passwords, n \in Names : screen = "AuthScreen" /\ Signup(e, p, n)
  \/ \E e \in Emails, p \in Passwords, r \in BOOLEAN : screen = "AuthScreen" /\ Login(e, p, r)
  \/ screen = "AppLayout" /\ Logout
  \/ \E l \in EducationChoices : SelectEducation(l)
  \/ \E t \in InterestChoices : ToggleInterest(t)
  \/ \E k \in KnowledgeChoices : SelectKnowledge(k)
  \/ ProfileNext

SpecOnboarding == Init /\ [][NextOnboarding]_vars

\* The views of the main application, for a user who signed up and completed
\* the onboarding flow.
OnboardingData ==
  [educationLevel |-> "Graduate", interests |-> <<"Genetics">>, knowledgeLevel |-> "Beginner"]
OnboardedUser == Merge(NewUser("a@x.com", "Alex", 1), OnboardingData)

InitViews ==
  /\ localStorage =
       [genexis_users |->
          JSONstringify(SetUser(EmptyObject, "a@x.com",
                                Merge(OnboardedUser, [password |-> "secret1"]))),
        genexis_session |-> JSONstringify(OnboardedUser)]
  /\ sessionStorage = [genexis_session |-> NoItem]
  /\ authUser = OnboardedUser
  /\ screen = Screen(authUser)
  /\ result = Call("updateProfile", "", "", FALSE, OnboardingData, TRUE, NoError)
  /\ now = 2
  /\ established = "signup"
  /\ written = [e \in Emails |-> IF e = "a@x.com" THEN OnboardingData ELSE EmptyObject]
  /\ generation = NoInvocation
  /\ view = "dashboard"
  /\ profileSetup = InitialProfileSetup
  /\ requests = <<>>
  /\ quizPage = InitialQuizPage
  /\ learningModule = InitialLearningModule
  /\ chatAssistant = InitialChatAssistant

NextViews ==
  \/ \E v \in SidebarViews : SetView(v)
  \/ TakeQuiz
  \/ \E t \in InputTexts : ChatType(t)
  \/ ChatSend
  \/ \E i \in 1..MaxRequests, value \in QuizValues : RequestFulfils(i, "generateQuiz", value)
  \/ \E i \in 1..MaxRequests, value \in LessonValues :
        RequestFulfils(i, "generateLearningContent", value)
  \/ \E i \in 1..MaxRequests, value \in Replies : RequestFulfils(i, "getChatResponse", value)
  \/ \E i \in 1..MaxRequests : RequestRejects(i)
  \/ \E idx \in 0..1 : HandleAnswer(idx)
  \/ TimerFires
  \/ RetryAssessment
  \/ \E i \in 0..1 : SetActiveTab(i)

SpecViews == InitViews /\ [][NextViews]_vars

\* Routing on its own: AuthWrapper and AppLayout render for any value of the
\* profile type that setAuthUser may hold.
EducationLevels == {"", "High School", "Undergraduate", "Graduate", "Professional"}

RouteSessions ==
  LET base == {NewUser(e, n, 1) : e \in Emails, n \in Names}
      withEducation == base \cup {Merge(u, [educationLevel |-> l]) : u \in base, l \in EducationLevels}
      withInterests == withEducation \cup {Merge(u, [interests |-> <<"Genetics">>]) : u \in withEducation}
  IN {Null} \cup withInterests
        \cup {Merge(u, [knowledgeLevel |-> k]) : u \in withInterests, k \in {"", "Beginner"}}

\* setAuthUser(user) followed by the render of AuthWrapper.
SetAuthUser(user) ==
  /\ authUser' = user
  /\ screen' = Screen(authUser')
  /\ UNCHANGED <<localStorage, sessionStorage, now, result, established, written, genVars, viewVars>>

NextRoute == \E u \in RouteSessions : SetAuthUser(u)

SpecRoute == Init /\ [][NextRoute]_vars

\* ================================================================ properties
Users == ReadUsers(localStorage)

\* The store holds a session entry / holds exactly this session.
HoldsSession(store) == store.genexis_session.kind = "json"
Holds(store, user) == store.genexis_session = JSONstringify(user)

\* C1: immediately after a successful login the session is in exactly one
\* store: the durable one and not the process-lifetime one when remember is
\* true, the process-lifetime one and not the durable one when it is false.
C1_LoginUsesExactlyOneStore ==
  (result.op = "login" /\ result.ok) =>
     IF result.remember
     THEN Holds(localStorage, authUser) /\ ~HoldsSession(sessionStorage)
     ELSE Holds(sessionStorage, authUser) /\ ~HoldsSession(localStorage)

\* C2: after updateProfile with an active session, the store the session
\* was established in holds the merged session and the other store holds no
\* session: process-lifetime after login(e, p, false), durable after signup
\* or login(e, p, true).
C2_UpdateRewritesOriginStore ==
  (result.op = "updateProfile" /\ authUser # Null) =>
     /\ established = "session" =>
          Holds(sessionStorage, authUser) /\ ~HoldsSession(localStorage)
     /\ established \in {"signup", "remember"} =>
          Holds(localStorage, authUser) /\ ~HoldsSession(sessionStorage)

\* C3: in every reachable state the durable store holds a session entry only
\* if the active session came from signup or login with remember, the
\* process-lifetime store only if it came from login without remember, and
\* never both at once.
C3_StoresFollowEstablishment ==
  /\ HoldsSession(localStorage) => established \in {"signup", "remember"}
  /\ HoldsSession(sessionStorage) => established = "session"
  /\ ~(HoldsSession(localStorage) /\ HoldsSession(sessionStorage))

\* C4: a restart never restores a session established by login without
\* remember (whatever updateProfile calls followed it); the restarted
\* session is what the durable entry parses to, and empty when that entry
\* is absent or unparseable.
C4_UnrememberedLoginNotRestored ==
  [][result'.op = "restart" =>
       /\ established = "session" => authUser' = Null
       /\ localStorage.genexis_session.kind # "json" => authUser' = Null
       /\ localStorage.genexis_session.kind = "json" =>
            authUser' = localStorage.genexis_session.value]_vars

\* C5: when the remote reply's text is empty or is not valid JSON,
\* generateQuiz resolves to the empty sequence and generateLearningContent
\* to the empty document; neither rejects.
C5_ParseFailureYieldsEmpty ==
  LET text == generation.response.text
      empty == ~generation.response.hasText \/ text = <<>>
  IN (generation.responded /\ (empty \/ JSONparse(text).threw)) =>
        /\ generation.outcome.status = "fulfilled"
        /\ generation.fn = "generateQuiz" => generation.outcome.value = EmptyArray
        /\ generation.fn = "generateLearningContent" =>
             generation.outcome.value = EmptyDocument

C7_DuplicateSignupRejected ==
  [][(result'.op = "signup" /\ result'.email \in DOMAIN ReadUsers(localStorage)) =>
       /\ ~result'.ok
       /\ result'.error = "An account with this email already exists."
       /\ ReadUsers(localStorage') = ReadUsers(localStorage)]_vars

\* A second signup with another password was refused; the record keeps the
\* first password.
C7_Witness ==
  /\ result.op = "signup" /\ ~result.ok /\ result.error = DuplicateAccount
  /\ result.email \in DOMAIN Users
  /\ Users[result.email].password # result.password

\* C8: login returns AccountNotFound exactly when the email has no record,
\* InvalidCredentials exactly when it has one whose password differs from
\* the supplied one, and succeeds in every other case.
C8_LoginErrorsExact ==
  [][result'.op = "login" =>
       LET users == ReadUsers(localStorage)
           known == result'.email \in DOMAIN users
           match == known /\ users[result'.email].password = result'.password
       IN /\ (result'.error = "No account found with that email.") <=> ~known
          /\ (result'.error = "Incorrect password.") <=> (known /\ ~match)
          /\ result'.ok <=> match
          /\ result'.ok <=> (result'.error = NoError)]_vars

\* A login on a registered email was refused for its password.
C8_Witness ==
  /\ result.op = "login" /\ ~result.ok /\ result.error = InvalidCredentials
  /\ result.email \in DOMAIN Users
  /\ Users[result.email].password # result.password

\* C9: every field given to updateProfile under a session for e is, with
\* its last written value, in the account record of e, in the in-memory
\* session after the update, and in the session a later login of e
\* establishes.
C9_UpdateReachesRecordAndLogin ==
  \A e \in Emails : \A f \in DOMAIN written[e] :
     /\ e \in DOMAIN Users
     /\ Users[e][f] = written[e][f]
     /\ (/\ authUser # Null
         /\ authUser.email = e
         /\ \/ result.op = "updateProfile"
            \/ (result.op = "login" /\ result.ok))
        => (f \in DOMAIN authUser /\ authUser[f] = written[e][f])

\* A fresh login shows the education level of the second of two updates
\* next to the interests of the first.
C9_Witness ==
  /\ result.op = "login" /\ result.ok
  /\ DOMAIN written[result.email] = {"educationLevel", "interests", "knowledgeLevel"}
  /\ written[result.email].educationLevel = "Graduate"
  /\ authUser.educationLevel = "Graduate"
  /\ authUser.interests = <<"Genetics">>

\* C10: updateProfile without an active session changes neither the
\* in-memory session nor either store.
C10_UpdateWithoutSessionIsNoOp ==
  [][(result'.op = "updateProfile" /\ authUser = Null) =>
       UNCHANGED <<authUser, localStorage, sessionStorage>>]_vars

\* updateProfile was called with no session in memory while the stores
\* hold accounts and a process-lifetime entry.
C10_Witness ==
  /\ result.op = "updateProfile" /\ authUser = Null
  /\ DOMAIN Users # {}
  /\ HoldsSession(sessionStorage)

\* The session entry a store holds, if it holds one.
SessionEntry(store) == IF HoldsSession(store) THEN store.genexis_session ELSE NoItem

C12_SignupCreatesDefaultProfile ==
  (result.op = "signup" /\ result.ok) =>
     /\ result.email \in DOMAIN Users
     /\ LET record == Users[result.email]
        IN /\ record.email = result.email
           /\ record.password = result.password
           /\ record.xp = 0 /\ record.level = 1 /\ record.streak = 1
           /\ "educationLevel" \notin DOMAIN record
           /\ authUser = [f \in (DOMAIN record) \ {"password"} |-> record[f]]
           /\ localStorage.genexis_session = [kind |-> "json", value |-> authUser]

\* The second account has just been created.
C12_Witness ==
  /\ result.op = "signup" /\ result.ok
  /\ Cardinality(DOMAIN Users) = 2
  /\ authUser.email = result.email

\* C13: the screen shown is a function of the session: the authentication
\* screen with no session, the onboarding flow with a session whose
\* education level is unset or empty, the main application with a session
\* whose education level is set and non-empty; so the main application is
\* never shown for a session without an education level.
C13_RoutingFollowsSession ==
  LET unset == "educationLevel" \notin DOMAIN authUser
      empty == ~unset /\ authUser.educationLevel = ""
  IN /\ authUser = Null => screen = "AuthScreen"
     /\ (authUser # Null /\ (unset \/ empty)) => screen = "ProfileSetup"
     /\ (authUser # Null /\ ~unset /\ ~empty) => screen = "AppLayout"

\* A session whose education level is the empty string is routed to the
\* onboarding flow.
C13_Witness ==
  /\ authUser # Null
  /\ "educationLevel" \in DOMAIN authUser
  /\ authUser.educationLevel = ""
  /\ screen = "ProfileSetup"

\* C14: completing the third onboarding step (updateProfile with the three
\* selected fields) takes the gate from the onboarding flow to the main
\* application, and applying updateProfile with the same three fields once
\* more to the state it produced leaves the in-memory session, the stored
\* session and the credential-store record as they are.
C14_CompletionFlipsGateAndIsIdempotent ==
  [][(screen = "ProfileSetup" /\ result'.op = "updateProfile") =>
       LET d == profileSetup.data IN
         /\ result'.data = d
         /\ screen' = "AppLayout"
         /\ UpdateAuthUser(authUser', d) = authUser'
         /\ UpdateLocalStorage(localStorage', authUser', d) = localStorage'
         /\ ReadUsers(localStorage')[authUser'.email] =
              Merge(ReadUsers(localStorage)[authUser.email], d)]_vars

C14_Witness ==
  /\ result.op = "updateProfile"
  /\ screen = "AppLayout"
  /\ authUser # Null
  /\ authUser.educationLevel = "Graduate"
  /\ authUser.interests = <<"CRISPR", "Genetics">>
  /\ authUser.knowledgeLevel = "Beginner"
  /\ ReadUsers(localStorage)[authUser.email].educationLevel = "Graduate"

\* C15: whenever a session is active, its email is a registered email and
\* the in-memory session equals the account record stored under that email
\* without its password, whatever fields updateProfile was given.
C15_SessionIsCopyOfRecord ==
  authUser # Null =>
    /\ AccountExists(Users, authUser.email)
    /\ authUser = PublicFields(Users[authUser.email])

\* C16: no session value contains the account password: the in-memory
\* session, the durable session entry and the process-lifetime session entry
\* have no password field.
C16_NoPasswordInSession ==
  /\ authUser # Null => "password" \notin DOMAIN authUser
  /\ HoldsSession(localStorage) =>
       "password" \notin DOMAIN localStorage.genexis_session.value
  /\ HoldsSession(sessionStorage) =>
       "password" \notin DOMAIN sessionStorage.genexis_session.value

C16_Witness ==
  /\ result.op = "login" /\ result.ok
  /\ authUser # Null
  /\ HoldsSession(localStorage)
  /\ HoldsSession(sessionStorage)
  /\ "password" \in DOMAIN Users[authUser.email]

\* C17: account records are never deleted: a successful signup registers the
\* email with the given password, and every step keeps every registered
\* email registered with the password it has, so that login with the
\* original password passes both checks.
C17_AccountsAreKept ==
  [][/\ (result'.op = "signup" /\ result'.ok) =>
          /\ AccountExists(Users', result'.email)
          /\ Users'[result'.email].password = result'.password
     /\ \A e \in DOMAIN Users :
          /\ AccountExists(Users', e)
          /\ Users'[e].password = Users[e].password
          /\ LoginError(Users', e, Users[e].password) = NoError]_vars

C17_Witness ==
  /\ result.op = "login" /\ result.ok
  /\ DOMAIN Users = Emails
  /\ \A e \in Emails : "educationLevel" \in DOMAIN Users[e]
  /\ established = "session"

\* The mounted component's outstanding and failed requests, and its
\* loading / typing indicator.
LiveRequests(fn, status) ==
  { i \in 1..Len(requests) :
      requests[i].live /\ requests[i].fn = fn /\ requests[i].status = status }

Indicator(fn) ==
  IF fn = "generateQuiz" THEN quizPage.loading
  ELSE IF fn = "generateLearningContent" THEN learningModule.loading
  ELSE chatAssistant.typing

\* C18: once the remote call behind the mounted quiz view or lesson view has
\* rejected and the view has reacted to it, the view is out of its loading
\* state.
C18_FailureLeavesLoading ==
  \A fn \in {"generateQuiz", "generateLearningContent"} :
     LiveRequests(fn, "rejected") # {} => ~Indicator(fn)

\* C19: a mounted view has at most one generation request outstanding; in
\* the chat view no second converse request is issued while an earlier one
\* is outstanding.
C19_OneRequestInFlight ==
  \A fn \in {"generateQuiz", "generateLearningContent", "getChatResponse"} :
     Cardinality(LiveRequests(fn, "pending")) <= 1

\* C20: while a request issued by the mounted chat, quiz or lesson view is
\* outstanding, the loading / typing indicator of the view is on.
C20_IndicatorWhileOutstanding ==
  \A fn \in {"generateQuiz", "generateLearningContent", "getChatResponse"} :
     LiveRequests(fn, "pending") # {} => Indicator(fn)

\* The requests of one function, and the messages of one role.
RequestsOf(fn) == { i \in 1..Len(requests) : requests[i].fn = fn }
MessagesOf(msgs, role) == { k \in 1..Len(msgs) : msgs[k].role = role }

ChatSettles(i, status) ==
  /\ i \in RequestsOf("getChatResponse")
  /\ requests[i].live
  /\ requests[i].status = "pending"
  /\ requests'[i].status = status

ChatSends == view = "chat" /\ view' = "chat" /\ Len(requests') > Len(requests)

\* C22 as stated: a send of a non-blank message appends exactly one user
\* message; when its call succeeds exactly one assistant message holding
\* the remote reply is appended, when it fails exactly one assistant message
\* holding a generic text; either way the typing indicator is cleared; the
\* transcript changes in no other way.
C22_ReplyOrFallback ==
  [][/\ ChatSends =>
          /\ chatAssistant.input # "  "
          /\ chatAssistant'.msgs =
               Append(chatAssistant.msgs, [role |-> "user", text |-> chatAssistant.input])
     /\ \A i \in 1..Len(requests) :
          /\ ChatSettles(i, "fulfilled") =>
               /\ chatAssistant'.msgs =
                    Append(chatAssistant.msgs, [role |-> "ai", text |-> requests'[i].reply])
               /\ ~chatAssistant'.typing
          /\ ChatSettles(i, "rejected") =>
               /\ \E txt \in {FallbackReply, ErrorReply} :
                     chatAssistant'.msgs =
                       Append(chatAssistant.msgs, [role |-> "ai", text |-> txt])
               /\ ~chatAssistant'.typing
     /\ (view' = view /\ chatAssistant'.msgs # chatAssistant.msgs) =>
          \/ ChatSends
          \/ \E i \in 1..Len(requests) :
                ChatSettles(i, "fulfilled") \/ ChatSettles(i, "rejected")]_vars

\* C22, amended: as above, except that a call that succeeds with an empty
\* reply appends the apology text instead of the reply, and a call that fails
\* appends the connection error text.
C22_ReplyApologyOrError ==
  [][/\ ChatSends =>
          /\ chatAssistant.input # "  "
          /\ chatAssistant'.msgs =
               Append(chatAssistant.msgs, [role |-> "user", text |-> chatAssistant.input])
     /\ \A i \in 1..Len(requests) :
          /\ ChatSettles(i, "fulfilled") =>
               /\ chatAssistant'.msgs =
                    Append(chatAssistant.msgs,
                           [role |-> "ai",
                            text |-> IF requests'[i].reply = ""
                                     THEN "I'm sorry, I couldn't process that."
                                     ELSE requests'[i].reply])
               /\ ~chatAssistant'.typing
          /\ ChatSettles(i, "rejected") =>
               /\ chatAssistant'.msgs =
                    Append(chatAssistant.msgs,
                           [role |-> "ai", text |-> "Error connecting to neural network."])
               /\ ~chatAssistant'.typing
     /\ (view' = view /\ chatAssistant'.msgs # chatAssistant.msgs) =>
          \/ ChatSends
          \/ \E i \in 1..Len(requests) :
                ChatSettles(i, "fulfilled") \/ ChatSettles(i, "rejected")]_vars

\* One send answered by an empty reply, one answered by a failure.
C22_Witness ==
  /\ view = "chat"
  /\ ~chatAssistant.typing
  /\ Len(chatAssistant.msgs) = 5
  /\ chatAssistant.msgs[2].role = "user"
  /\ chatAssistant.msgs[3] = [role |-> "ai", text |-> "I'm sorry, I couldn't process that."]
  /\ chatAssistant.msgs[4].role = "user"
  /\ chatAssistant.msgs[5] = [role |-> "ai", text |-> "Error connecting to neural network."]
  /\ \E i \in RequestsOf("getChatResponse") :
        requests[i].status = "fulfilled" /\ requests[i].reply = ""

\* The selection of the step the onboarding flow is on.
StepSelected(ps) ==
  IF ps.step = 1 THEN ps.data.educationLevel # ""
  ELSE IF ps.step = 2 THEN ps.data.interests # <<>>
  ELSE ps.data.knowledgeLevel # ""

\* C23: the onboarding step counter starts at 1, stays within 1..3 and,
\* while the flow is shown, only ever changes by +1, and only when the
\* selection of the current step is non-empty; updateProfile is called only
\* on advancing from step 3, with the three collected fields, all non-empty,
\* and the completion callback has run in the same step (the view is the
\* dashboard, the onboarding flow is gone).
C23_OnboardingIsLinear ==
  [][/\ profileSetup.step \in 1..3 /\ profileSetup'.step \in 1..3
     /\ (screen # "ProfileSetup" /\ screen' = "ProfileSetup") => profileSetup'.step = 1
     /\ (screen = "ProfileSetup" /\ screen' = "ProfileSetup"
           /\ profileSetup'.step # profileSetup.step) =>
          /\ profileSetup'.step = profileSetup.step + 1
          /\ StepSelected(profileSetup)
          /\ profileSetup'.data = profileSetup.data
     /\ (result'.op = "updateProfile" /\ result' # result) =>
          /\ screen = "ProfileSetup"
          /\ profileSetup.step = 3
          /\ result'.data = profileSetup.data
          /\ profileSetup.data.educationLevel # ""
          /\ profileSetup.data.interests # <<>>
          /\ profileSetup.data.knowledgeLevel # ""
          /\ view' = "dashboard"
          /\ screen' = "AppLayout"]_vars

C23_Witness ==
  /\ screen = "ProfileSetup"
  /\ profileSetup.step = 3
  /\ profileSetup.data.educationLevel = "Undergraduate"
  /\ Len(profileSetup.data.interests) = 2
  /\ profileSetup.data.knowledgeLevel = "Beginner"

\* The request of the mounted view, a call of fn, fulfils in this step.
Delivers(fn) ==
  \E i \in RequestsOf(fn) :
     requests[i].live /\ requests[i].status = "pending" /\ requests'[i].status = "fulfilled"

\* C24: when generateQuiz resolves to an empty sequence or
\* generateLearningContent to an empty document, the view leaves its loading
\* state and then stays as it is until it is left (no answer, timer or
\* section action acts on it, the quiz cannot be entered from the empty
\* lesson); and whenever an answer is taken or a section is shown, the
\* question or section read is one that exists.
C24_EmptyResultHandled ==
  [][/\ Delivers("generateQuiz") => ~quizPage'.loading
     /\ Delivers("generateLearningContent") => ~learningModule'.loading
     /\ (view = "quiz" /\ ~quizPage.loading /\ quizPage.quiz.items = <<>> /\ view' = view)
          => quizPage' = quizPage
     /\ (view = "learn" /\ ~learningModule.loading
           /\ learningModule.content.sections = <<>>)
          => /\ view' # "quiz"
             /\ view' = view => learningModule' = learningModule
     /\ (quizPage'.selected # NoSelection /\ quizPage.selected = NoSelection)
          => quizPage.current \in 0..(Len(quizPage.quiz.items) - 1)
     /\ (view' = "learn" /\ learningModule'.content.sections # <<>>)
          => learningModule'.activeTab \in 0..(Len(learningModule'.content.sections) - 1)]_vars

\* The quiz view has received an empty quiz, entered from a lesson that has
\* sections.
C24_Witness ==
  /\ view = "quiz"
  /\ ~quizPage.loading
  /\ quizPage.quiz = EmptyQuiz
  /\ \E i \in RequestsOf("generateQuiz") :
        requests[i].live /\ requests[i].status = "fulfilled"

\* C25: a signup or login that fails leaves the in-memory session, the
\* accounts mapping, the durable session entry and the process-lifetime
\* session entry as they were; an active session stays active.
C25_FailedCallChangesNothing ==
  [][(result'.op \in {"signup", "login"} /\ ~result'.ok) =>
       /\ authUser' = authUser
       /\ localStorage'.genexis_users = localStorage.genexis_users
       /\ localStorage'.genexis_session = localStorage.genexis_session
       /\ sessionStorage'.genexis_session = sessionStorage.genexis_session
       /\ screen' = screen]_vars

\* A login was refused while the session of another account is active and
\* both stores hold a session entry.
C25_Witness ==
  /\ result.op = "login" /\ ~result.ok
  /\ authUser # Null
  /\ authUser.email # result.email
  /\ HoldsSession(localStorage)
  /\ HoldsSession(sessionStorage)

\* The questions of the quiz view that have been answered.
Answered(qp) == qp.current + (IF qp.selected # NoSelection THEN 1 ELSE 0)

\* The quiz view shows a non-empty quiz.
ShowsQuiz(v, qp) == v = "quiz" /\ ~qp.loading /\ qp.quiz.items # <<>>

QuizInRange(qp) ==
  /\ qp.current \in 0..(Len(qp.quiz.items) - 1)
  /\ 0 <= qp.score
  /\ qp.score <= Answered(qp)
  /\ Answered(qp) <= Len(qp.quiz.items)
  /\ Len(qp.timers) <= 1
  /\ qp.timers # <<>> => qp.selected # NoSelection
  /\ qp.finished => (qp.current = Len(qp.quiz.items) - 1 /\ qp.selected # NoSelection)

\* C26: in the quiz view with a non-empty quiz, a question is answered at
\* most once (no answer is taken between a click and the timer that
\* advances), current only grows by one at a time and stays within
\* 0..length-1, the score grows by exactly 1 on a correct answer and by 0
\* otherwise, so that 0 <= score <= answered <= length, and the view becomes
\* finished exactly when the timer of the last question fires.
C26_QuizAnswering ==
  [][/\ ShowsQuiz(view, quizPage) => QuizInRange(quizPage)
     /\ ShowsQuiz(view', quizPage') => QuizInRange(quizPage')
     /\ (ShowsQuiz(view, quizPage) /\ ShowsQuiz(view', quizPage')) =>
          LET answers == quizPage.selected = NoSelection /\ quizPage'.selected # NoSelection
              fires == quizPage.timers # <<>> /\ quizPage'.timers = Tail(quizPage.timers)
              last == quizPage.current = Len(quizPage.quiz.items) - 1
          IN /\ quizPage'.quiz = quizPage.quiz
             /\ quizPage.selected # NoSelection =>
                  quizPage'.selected \in {quizPage.selected, NoSelection}
             /\ answers => (~quizPage.finished /\ quizPage'.current = quizPage.current)
             /\ quizPage'.current \in {quizPage.current, quizPage.current + 1}
             /\ quizPage'.current = quizPage.current + 1 =>
                  (fires /\ quizPage'.selected = NoSelection)
             /\ quizPage'.score = quizPage.score +
                  (IF answers /\ quizPage'.selected =
                        quizPage.quiz.items[quizPage.current + 1].correctAnswer
                   THEN 1 ELSE 0)
             /\ quizPage.finished => quizPage'.finished
             /\ (~quizPage.finished /\ quizPage'.finished) <=> (fires /\ last)]_vars

\* A quiz of two questions is finished with one answer right and one wrong.
C26_Witness ==
  /\ ShowsQuiz(view, quizPage)
  /\ quizPage.finished
  /\ Len(quizPage.quiz.items) = 2
  /\ quizPage.score = 1
  /\ quizPage.selected = 0

====
